---- MODULE Spec2Model ----
(***************************************************************************)
(* Road-network topology construction (shapefiles/upload_data.py) and the  *)
(* routing endpoints get_route / get_nearest (app.py) of surulere-map.     *)
(*                                                                         *)
(* Units.  A coordinate is an integer count of 10^-7 degree, so Python's   *)
(* round(x, 6) is rounding to a multiple of 10.  shapely's geom.length is  *)
(* a planar length in the same unit.  PostGIS geography lengths and        *)
(* distances are in millimetres (10^-7 degree of arc is 11 mm), so         *)
(* Python's round(metres) is rounding to a multiple of 1000.               *)
(***************************************************************************)
EXTENDS Integers, Sequences, FiniteSets, TLC

VARIABLES
    gdf,            \* the rows of ROAD.shp, in file order: one geometry each
    spc,            \* position of setup_database's road section
    idx,            \* rows consumed by the loop of build_topology_in_python
    nodes,          \* dict: rounded coordinate -> node id
    node_counter,
    sources,
    targets,
    costs,
    roads,          \* table roads
    vertices,       \* table roads_vertices_pgr
    point_features, \* table point_features
    q               \* the requests being served, one record per connection

vars == <<gdf, spc, idx, nodes, node_counter, sources, targets, costs,
          roads, vertices, point_features, q>>

buildVars == <<idx, nodes, node_counter, sources, targets, costs>>
tableVars == <<roads, vertices, point_features>>

(***************************************************************************)
(* Bounds of the model.                                                    *)
(***************************************************************************)
MaxLines == 3   \* rows of the road file in the builder's specification
MaxRoads == 3   \* rows of the road file in the service's specification
MaxRerunLines == 2  \* rows of a road file when the ingestion is run again

(***************************************************************************)
(* Values.                                                                 *)
(***************************************************************************)
None == -1      \* Python None / SQL NULL in an integer or float column

RECURSIVE SeqsUpTo(_, _)
SeqsUpTo(S, n) ==
    IF n = 0 THEN {<<>>}
    ELSE LET shorter == SeqsUpTo(S, n - 1)
         IN  shorter \cup {Append(s, x) : s \in {t \in shorter : Len(t) = n - 1}, x \in S}

RECURSIVE SumSeq(_)
SumSeq(s) == IF s = <<>> THEN 0 ELSE Head(s) + SumSeq(Tail(s))

RECURSIVE SqrtIter(_, _, _)
SqrtIter(lo, hi, n) ==
    IF hi - lo <= 1 THEN lo
    ELSE LET mid == (lo + hi) \div 2
         IN  IF mid * mid <= n THEN SqrtIter(mid, hi, n) ELSE SqrtIter(lo, mid, n)

\* the square root, for n below 2^31, cut to the whole unit below it (the
\* code keeps the double); 46341 is the least integer whose square exceeds 2^31
ISqrt(n) == SqrtIter(0, IF n < 46340 THEN n + 1 ELSE 46341, n)

\* Python 3 round(): to the nearest multiple of unit, a tie to the even one.
\* The result is the number of units.
PyRound(v, unit) ==
    LET lo == v \div unit
        r  == v - lo * unit
    IN  IF 2 * r < unit THEN lo
        ELSE IF 2 * r > unit THEN lo + 1
        ELSE IF lo % 2 = 0 THEN lo ELSE lo + 1

\* The ordinate of v units is the double nearest to v / 10^7, which is
\* m * 2^-k for a whole m of 53 bits.  Halvings and Doublings give k, and
\* (v * 2^k) mod 10^7 tells on which side of v / 10^7 the double lies.
Ten7 == 10000000

RECURSIVE Halvings(_)
Halvings(a) == IF a \div 2 >= Ten7 THEN 1 + Halvings(a \div 2) ELSE 0

RECURSIVE Doublings(_)
Doublings(a) == IF a >= Ten7 THEN 0 ELSE 1 + Doublings(2 * a)

\* (a * 2^k) mod 10^7 for a below 10^7, seven bits at a time
RECURSIVE DoubleMod(_, _)
DoubleMod(a, k) ==
    IF k < 7 THEN (a * 2^k) % Ten7 ELSE DoubleMod((128 * a) % Ten7, k - 7)

\* "exact", "below" or "above": the double of v units (v > 0) against v / 10^7
DoubleSide(v) ==
    LET k == IF v >= Ten7 THEN 52 - Halvings(v) ELSE 52 + Doublings(v)
        r == DoubleMod(v % Ten7, k)
    IN  IF r = 0 THEN "exact"
        ELSE IF 2 * r < Ten7 THEN "below" ELSE "above"

\* round(x, 6) of a positive ordinate: the value of the double is rounded
\* correctly, so a decimal ...5e-7 goes the way its double lies, and to the
\* even neighbour only when the double is exact
Round6Abs(v) ==
    LET lo == v \div 10
        r  == v % 10
    IN  IF r < 5 THEN 10 * lo
        ELSE IF r > 5 THEN 10 * (lo + 1)
        ELSE IF DoubleSide(v) = "below" THEN 10 * lo
        ELSE IF DoubleSide(v) = "above" THEN 10 * (lo + 1)
        ELSE IF lo % 2 = 0 THEN 10 * lo ELSE 10 * (lo + 1)

\* round(x, 6) of one ordinate
Round6(v) == IF v < 0 THEN 0 - Round6Abs(0 - v) ELSE Round6Abs(v)

\* (round(c[0], 6), round(c[1], 6))
RoundCoord(c) == <<Round6(c[1]), Round6(c[2])>>

DistSq(p, r) == (p[1] - r[1]) * (p[1] - r[1]) + (p[2] - r[2]) * (p[2] - r[2])

(***************************************************************************)
(* Geometries (shapely).  gtype "None" is a missing geometry.              *)
(***************************************************************************)
NoGeom == [gtype |-> "None", coords |-> <<>>, geoms |-> <<>>]
LineString(cs) == [gtype |-> "LineString", coords |-> cs, geoms |-> <<>>]
MultiLineString(parts) == [gtype |-> "MultiLineString", coords |-> <<>>, geoms |-> parts]
Polygon(ring) == [gtype |-> "Polygon", coords |-> <<>>, geoms |-> <<ring>>]

\* geom.is_empty
is_empty(g) ==
    IF g.gtype = "LineString" THEN g.coords = <<>>
    ELSE \A i \in 1..Len(g.geoms) : g.geoms[i] = <<>>

\* geom.coords is defined for a LineString; the multi-part and polygon
\* classes raise NotImplementedError
HasCoords(g) == g.gtype = "LineString"

RECURSIVE PathLen(_)
PathLen(cs) ==
    IF Len(cs) < 2 THEN 0
    ELSE ISqrt(DistSq(cs[1], cs[2])) + PathLen(Tail(cs))

\* geom.length: planar, in coordinate units
length(g) ==
    IF g.gtype = "None" THEN 0
    ELSE IF g.gtype = "LineString" THEN PathLen(g.coords)
    ELSE IF g.gtype = "Polygon" THEN PathLen(g.geoms[1])
    ELSE SumSeq([i \in 1..Len(g.geoms) |-> PathLen(g.geoms[i])])

\* ST_Length(geom::geography), in millimetres; NULL for a NULL geometry
ST_Length(g) == IF g.gtype = "None" THEN None ELSE 11 * length(g)

\* ST_Distance(a::geography, b::geography), in millimetres
ST_Distance(a, b) == 11 * ISqrt(DistSq(a, b))

(***************************************************************************)
(* The road files the model reads.                                         *)
(***************************************************************************)
PtA == <<0, 0>>
PtA2 == <<3, 0>>        \* rounds to PtA
PtB == <<140, 0>>
PtB2 == <<143, 0>>      \* rounds to PtB
PtM == <<200, 0>>
PtC == <<280, 0>>
PtD == <<0, 300>>
PtE == <<140, 300>>

LineAB == LineString(<<PtA, PtB>>)
LineBC == LineString(<<PtB2, PtM, PtC>>)
LineDE == LineString(<<PtD, PtE>>)
LineLoop == LineString(<<PtA, PtA2>>)
LineEmpty == LineString(<<>>)
MultiBC == MultiLineString(<< <<PtB, PtM>>, <<PtM, PtC>> >>)
MultiEmptyPart == MultiLineString(<< <<>>, <<PtB, PtC>> >>)
PolyA == Polygon(<<PtA, PtB, PtE, PtA>>)
PtT1 == <<25, 0>>       \* 0.0000025: its double lies above, rounds to 30
PtT2 == <<35, 0>>       \* 0.0000035: its double lies below, rounds to 30
LineTie == LineString(<<PtT1, PtT2>>)

LineChoices == {NoGeom, LineEmpty, LineAB, LineBC, LineDE, LineLoop, LineTie,
                MultiBC, MultiEmptyPart, PolyA}
RoadChoices == {NoGeom, LineAB, LineBC, LineDE}

(***************************************************************************)
(* build_topology_in_python                                                *)
(***************************************************************************)
EmptyDict == [c \in {} |-> 0]

\* the row's first and last coordinate, rounded (lines 57-65); "ok" is FALSE
\* when coords[0] of an empty part raises IndexError
Endpoints(geom) ==
    IF HasCoords(geom)
    THEN [ok |-> TRUE,
          start_coord |-> RoundCoord(geom.coords[1]),
          end_coord |-> RoundCoord(geom.coords[Len(geom.coords)])]
    ELSE LET first_line == geom.geoms[1]
             last_line  == geom.geoms[Len(geom.geoms)]
         IN  IF first_line = <<>> \/ last_line = <<>>
             THEN [ok |-> FALSE, start_coord |-> <<0, 0>>, end_coord |-> <<0, 0>>]
             ELSE [ok |-> TRUE,
                   start_coord |-> RoundCoord(first_line[1]),
                   end_coord |-> RoundCoord(last_line[Len(last_line)])]

\* Allocate without the lookup: every endpoint is given the next id
AllocateAlways(dict, counter, coord) ==
    [dict |-> (coord :> counter) @@ dict, counter |-> counter + 1]

\* Allocate with a counter that advances by two: the ids have gaps
AllocateStride2(dict, counter, coord) ==
    IF coord \in DOMAIN dict
    THEN [dict |-> dict, counter |-> counter]
    ELSE [dict |-> (coord :> counter) @@ dict, counter |-> counter + 2]

\* lines 69-71 and 72-74: look the coordinate up, or give it the next id
Allocate(dict, counter, coord) ==
    IF coord \in DOMAIN dict
    THEN [dict |-> dict, counter |-> counter]
    ELSE [dict |-> (coord :> counter) @@ dict, counter |-> counter + 1]

\* one iteration of the loop, lines 49-78
ProcessRow ==
    /\ spc = "loop"
    /\ idx < Len(gdf)
    /\ LET geom == gdf[idx + 1]
       IN  IF geom.gtype = "None" \/ is_empty(geom)
           THEN /\ sources' = Append(sources, None)
                /\ targets' = Append(targets, None)
                /\ costs' = Append(costs, 0)
                /\ idx' = idx + 1
                /\ UNCHANGED <<spc, nodes, node_counter>>
           ELSE IF ~HasCoords(geom) /\ geom.gtype # "MultiLineString"
           THEN \* NotImplementedError caught, "continue": nothing is appended
                /\ idx' = idx + 1
                /\ UNCHANGED <<spc, nodes, node_counter, sources, targets, costs>>
           ELSE LET ep == Endpoints(geom)
                    a1 == Allocate(nodes, node_counter, ep.start_coord)
                    a2 == Allocate(a1.dict, a1.counter, ep.end_coord)
                IN  IF ~ep.ok
                    THEN \* IndexError inside the except clause: the call fails
                         /\ spc' = "raised"
                         /\ UNCHANGED <<idx, nodes, node_counter, sources, targets, costs>>
                    ELSE /\ nodes' = a2.dict
                         /\ node_counter' = a2.counter
                         /\ sources' = Append(sources, a2.dict[ep.start_coord])
                         /\ targets' = Append(targets, a2.dict[ep.end_coord])
                         /\ costs' = Append(costs, length(geom))
                         /\ idx' = idx + 1
                         /\ UNCHANGED spc
    /\ UNCHANGED <<gdf, q>>
    /\ UNCHANGED tableVars

\* lines 80-88: the columns are assigned and the node frame is made.
\* gdf['source'] = sources raises ValueError when a row was skipped.  With no
\* node, GeoDataFrame([], crs=gdf.crs) has no geometry column: geopandas 1.x
\* refuses the crs there (line 86), earlier releases return the frame and
\* rename_geometry refuses it later (line 184).
FinishBuild ==
    /\ spc = "loop"
    /\ idx = Len(gdf)
    /\ IF Len(sources) # Len(gdf) THEN spc' = "raised"
       ELSE IF DOMAIN nodes = {} THEN spc' \in {"no_nodes", "built"}
       ELSE spc' = "built"
    /\ UNCHANGED <<gdf, q>>
    /\ UNCHANGED buildVars
    /\ UNCHANGED tableVars

(***************************************************************************)
(* setup_database, section D: the tables are written.                      *)
(***************************************************************************)
\* has_id: the table has the column id; has_roadname: it has the column
\* "ROADNAME", spelt in capitals
NoTable == [exists |-> FALSE, has_id |-> FALSE, has_roadname |-> FALSE, rows |-> <<>>]
\* a table without rows that has every column app.py names
EmptyTable == [exists |-> TRUE, has_id |-> TRUE, has_roadname |-> TRUE, rows |-> <<>>]

\* the coordinate that holds id v in the dict
KeyOf(dict, v) == CHOOSE c \in DOMAIN dict : dict[c] = v

\* line 85: one record per item of the dict, in insertion order
node_data(dict) ==
    [i \in 1..Cardinality(DOMAIN dict) |-> [id |-> i, geom |-> KeyOf(dict, i)]]

\* line 181: to_postgis('roads', if_exists='replace', index=True); the frame
\* has the columns index, source, target, cost, reverse_cost, geom and the
\* attribute columns of the file, every name in lower case (line 174): no id
\* and no "ROADNAME"
UploadRoads ==
    /\ spc = "built"
    /\ roads' = [exists |-> TRUE, has_id |-> FALSE, has_roadname |-> FALSE,
                 rows |-> [i \in 1..Len(gdf) |->
                              [id |-> None,
                               source |-> sources[i],
                               target |-> targets[i],
                               cost |-> costs[i],
                               reverse_cost |-> costs[i],
                               geom |-> gdf[i]]]]
    /\ spc' = "roads_uploaded"
    /\ UNCHANGED <<gdf, q, vertices, point_features>>
    /\ UNCHANGED buildVars

\* lines 184-185: rename_geometry, then
\* to_postgis('roads_vertices_pgr', if_exists='replace')
UploadNodes ==
    /\ spc = "roads_uploaded"
    /\ IF DOMAIN nodes = {}
       THEN /\ spc' = "no_nodes"
            /\ UNCHANGED vertices
       ELSE /\ vertices' = [exists |-> TRUE, has_id |-> TRUE, has_roadname |-> FALSE,
                            rows |-> node_data(nodes)]
            /\ spc' = "nodes_uploaded"
    /\ UNCHANGED <<gdf, q, roads, point_features>>
    /\ UNCHANGED buildVars

\* lines 187-193, one transaction: id SERIAL is added and numbers the rows,
\* cost becomes ST_Length(geom::geography), reverse_cost becomes cost
UpdateCosts ==
    /\ spc = "nodes_uploaded"
    /\ roads' = [roads EXCEPT
                    !.has_id = TRUE,
                    !.rows = [i \in 1..Len(roads.rows) |->
                                 [roads.rows[i] EXCEPT
                                     !.id = i,
                                     !.cost = ST_Length(roads.rows[i].geom),
                                     !.reverse_cost = ST_Length(roads.rows[i].geom)]]]
    /\ spc' = "done"
    /\ UNCHANGED <<gdf, q, vertices, point_features>>
    /\ UNCHANGED buildVars

(***************************************************************************)
(* The collaborators of the routing service: PostgreSQL, PostGIS, pgRouting *)
(***************************************************************************)
\* text: a sequence of one-character strings
UpperLetters == <<"A", "B", "C", "D", "E", "F", "G", "H", "I", "J", "K", "L", "M",
                  "N", "O", "P", "Q", "R", "S", "T", "U", "V", "W", "X", "Y", "Z">>
LowerLetters == <<"a", "b", "c", "d", "e", "f", "g", "h", "i", "j", "k", "l", "m",
                  "n", "o", "p", "q", "r", "s", "t", "u", "v", "w", "x", "y", "z">>

\* ILIKE folds the case of every letter
Lower(ch) ==
    IF \E i \in 1..26 : UpperLetters[i] = ch
    THEN LowerLetters[CHOOSE i \in 1..26 : UpperLetters[i] = ch]
    ELSE ch

LowerText(t) == [i \in 1..Len(t) |-> Lower(t[i])]

\* text LIKE pattern: % is any run of characters, _ is any one character, a
\* backslash takes the next character of the pattern as it is
RECURSIVE LikeMatch(_, _)
LikeMatch(t, p) ==
    IF p = <<>> THEN t = <<>>
    ELSE IF Head(p) = "%"
    THEN LikeMatch(t, Tail(p)) \/ (t # <<>> /\ LikeMatch(Tail(t), p))
    ELSE IF Head(p) = "_"
    THEN t # <<>> /\ LikeMatch(Tail(t), Tail(p))
    ELSE IF Head(p) = "\\"
    THEN /\ Len(p) >= 2
         /\ t # <<>>
         /\ Head(t) = p[2]
         /\ LikeMatch(Tail(t), Tail(Tail(p)))
    ELSE t # <<>> /\ Head(t) = Head(p) /\ LikeMatch(Tail(t), Tail(p))

\* value ILIKE search_term, search_term = f"%{category}%": the category goes
\* into the pattern as it was sent
ILike(value, category) ==
    LikeMatch(LowerText(value), LowerText(<<"%">> \o category \o <<"%">>))

\* ORDER BY geom <-> point LIMIT 1 over a set of rows: the rows that may be
\* returned (equidistant rows are returned in no fixed order)
Nearest(rowset, pt) ==
    {r \in rowset : \A o \in rowset : DistSq(r.geom, pt) <= DistSq(o.geom, pt)}

RowSet(table) == {table.rows[i] : i \in 1..Len(table.rows)}

\* pgRouting reads every row of the inner query and refuses a NULL in id,
\* source, target, cost or reverse_cost ("Unexpected Null value in column")
InnerQueryFails(table) ==
    \/ ~table.exists
    \/ ~table.has_id
    \/ \E i \in 1..Len(table.rows) :
          LET r == table.rows[i]
          IN  None \in {r.id, r.source, r.target, r.cost, r.reverse_cost}

Other(r, v) == IF r.source = v THEN r.target ELSE r.source

RECURSIVE SimplePaths(_, _, _, _)
SimplePaths(rows, v, t, visited) ==
    IF v = t THEN {<<>>}
    ELSE UNION {
            {<<i>> \o p :
                p \in SimplePaths(rows, Other(rows[i], v), t,
                                  visited \cup {Other(rows[i], v)})} :
            i \in {j \in 1..Len(rows) :
                      /\ rows[j].source = v \/ rows[j].target = v
                      /\ Other(rows[j], v) \notin visited}}

PathCost(rows, p) == SumSeq([k \in 1..Len(p) |-> rows[p[k]].cost])

\* pgr_dijkstra(inner, s, t, directed := false): the possible results, each the
\* edge column of the rows that traverse an edge, in seq order.  No row at all
\* when s = t or when t cannot be reached from s.
pgr_dijkstra(rows, s, t) ==
    IF s = t THEN {<<>>}
    ELSE LET ps == SimplePaths(rows, s, t, {s})
         IN  IF ps = {} THEN {<<>>}
             ELSE {[k \in 1..Len(p) |-> rows[p[k]].id] :
                      p \in {x \in ps : \A y \in ps : PathCost(rows, x) <= PathCost(rows, y)}}

\* the vertices an undirected walk reaches over the rows that have both ends
RECURSIVE Reach(_, _)
Reach(rows, seen) ==
    LET next == seen \cup
                {Other(rows[i], v) :
                    <<i, v>> \in {x \in (1..Len(rows)) \X seen :
                                     /\ rows[x[1]].source # None
                                     /\ rows[x[1]].target # None
                                     /\ x[2] \in {rows[x[1]].source, rows[x[1]].target}}}
    IN  IF next = seen THEN seen ELSE Reach(rows, next)

\* how the two snapped vertices lie in the road graph
GraphRel(rows, s, t) ==
    IF s = t THEN "same"
    ELSE IF t \in Reach(rows, {s}) THEN "connected" ELSE "disconnected"


(***************************************************************************)
(* Requests.  Every cur.execute is one step: the statement reads the tables *)
(* as they are when it runs.                                                *)
(***************************************************************************)
NoTarget == [found |-> FALSE, name |-> "", category |-> <<>>, geom |-> <<0, 0>>]
json_null == [null |-> TRUE, items |-> <<>>]
json_array(items) == [null |-> FALSE, items |-> items]
NoBody == [sql_null |-> TRUE, type |-> "", features |-> json_null]

Idle == [op |-> "none", pc |-> "idle", origin |-> <<0, 0>>, dest |-> <<0, 0>>,
         category |-> <<>>, target |-> NoTarget,
         start_node |-> None, end_node |-> None,
         handed |-> {}, rel |-> "none",
         outcome |-> "none", exc |-> "", status |-> 0, body |-> NoBody]

\* a request may arrive on a connection that serves none
Free(c) == q[c].pc \in {"idle", "done"}

\* an exception leaves the handler: Flask answers 500
Raise(r, exc) ==
    [r EXCEPT !.pc = "done", !.outcome = "error", !.exc = exc, !.status = 500, !.body = NoBody]

\* jsonify(body)
Respond(r, outcome, body) ==
    [r EXCEPT !.pc = "done", !.outcome = outcome, !.status = 200, !.body = body]

\* json_agg(...): NULL over no rows
json_agg(items) == IF items = <<>> THEN json_null ELSE json_array(items)

\* json_build_object('type', 'FeatureCollection', 'features', agg): an object
\* even when agg is NULL
json_build_object(agg) == [sql_null |-> FALSE, type |-> "FeatureCollection", features |-> agg]

\* {"type": "FeatureCollection", "features": []}
EmptyCollection == [sql_null |-> FALSE, type |-> "FeatureCollection", features |-> json_array(<<>>)]

\* the snap with its point in a variable the handlers share: the point of any
\* request in flight may be the one the statement is run with
SnapRowsSharedPoint(pt) ==
    IF vertices.rows = <<>> THEN {None}
    ELSE LET inflight == {k \in DOMAIN q : q[k].pc \notin {"idle", "done"}}
             pts == {pt} \cup {q[k].origin : k \in inflight}
         IN  {r.id : r \in UNION {Nearest(RowSet(vertices), p) : p \in pts}}

\* SELECT id FROM roads_vertices_pgr ORDER BY geom <-> point LIMIT 1, then
\* fetchone(): the ids that may come back, None when there is no row
SnapRows(pt) ==
    IF vertices.rows = <<>> THEN {None}
    ELSE {r.id : r \in Nearest(RowSet(vertices), pt)}

QA == <<5, 0>>
QC == <<277, 0>>
QE == <<140, 298>>
QueryPts == {QA, QC, QE}

Bank == <<"B", "a", "n", "k">>
Hotel == <<"H", "o", "t", "e", "l">>
Facilities == {[name |-> "GTB", category |-> Bank, geom |-> <<275, 5>>],
               [name |-> "Eko", category |-> Hotel, geom |-> <<140, 295>>]}
Categories == {<<"b", "a", "n", "k">>, <<"o", "t">>, <<>>, <<"Z", "o", "o">>}

(***************************************************************************)
(* get_route                                                               *)
(***************************************************************************)
\* lines 71-84: the request is read and the origin is snapped;
\* fetchone()[0] raises TypeError when there is no row
GetRouteSnapStart(c) ==
    /\ Free(c)
    /\ \E o \in QueryPts, d \in QueryPts :
          LET r == [Idle EXCEPT !.op = "get_route", !.origin = o, !.dest = d]
          IN  IF ~vertices.exists THEN q' = [q EXCEPT ![c] = Raise(r, "UndefinedTable")]
              ELSE \E n \in SnapRows(o) :
                      q' = [q EXCEPT ![c] =
                              IF n = None THEN Raise(r, "TypeError")
                              ELSE [r EXCEPT !.pc = "route_snap_end", !.start_node = n]]
    /\ UNCHANGED <<gdf, spc>>
    /\ UNCHANGED buildVars
    /\ UNCHANGED tableVars

\* lines 86-87
GetRouteSnapEnd(c) ==
    /\ q[c].pc = "route_snap_end"
    /\ IF ~vertices.exists THEN q' = [q EXCEPT ![c] = Raise(q[c], "UndefinedTable")]
       ELSE \E n \in SnapRows(q[c].dest) :
               q' = [q EXCEPT ![c] =
                       IF n = None THEN Raise(q[c], "TypeError")
                       ELSE [q[c] EXCEPT !.pc = "route_search", !.end_node = n]]
    /\ UNCHANGED <<gdf, spc>>
    /\ UNCHANGED buildVars
    /\ UNCHANGED tableVars

\* the rows of roads the inner query hands to pgr_dijkstra
InnerRows(table) ==
    {[id |-> r.id, source |-> r.source, target |-> r.target,
      cost |-> r.cost, reverse_cost |-> r.reverse_cost] : r \in RowSet(table)}

\* ids in ascending order
RECURSIVE SortIds(_)
SortIds(S) ==
    IF S = {} THEN <<>>
    ELSE LET m == CHOOSE x \in S : \A y \in S : x <= y
         IN  <<m>> \o SortIds(S \ {m})

\* the join has no ORDER BY: its rows come in the order of the path (the
\* function scan drives the join) or of the table (the table scan drives it)
JoinOrders(path) == {path, SortIds({path[k] : k \in 1..Len(path)})}

\* ST_AsGeoJSON(row.*) of the joined row (id, name, geom): the geometry, and
\* the other columns as properties.  name is COALESCE(r."ROADNAME", 'Road');
\* the rows of the model hold no road name
RouteFeature(r) ==
    [type |-> "Feature", geometry |-> r.geom,
     properties |-> [id |-> r.id, name |-> "Road"]]

\* the statement of lines 91-103 cannot be analysed: it names r.id and
\* r."ROADNAME", and a quoted name is matched letter for letter
RouteColumnsMissing(table) == ~table.has_id \/ ~table.has_roadname

\* lines 89-108: the search, and the response.  The names of the statement
\* are resolved before the inner query is run.
GetRouteSearch(c) ==
    /\ q[c].pc = "route_search"
    /\ LET r == [q[c] EXCEPT
                    !.handed = IF roads.exists /\ ~RouteColumnsMissing(roads)
                               THEN InnerRows(roads) ELSE {},
                    !.rel = GraphRel(roads.rows, q[c].start_node, q[c].end_node)]
       IN  IF ~roads.exists THEN q' = [q EXCEPT ![c] = Raise(r, "UndefinedTable")]
           ELSE IF RouteColumnsMissing(roads)
           THEN q' = [q EXCEPT ![c] = Raise(r, "UndefinedColumn")]
           ELSE IF InnerQueryFails(roads)
           THEN q' = [q EXCEPT ![c] = Raise(r, "DatabaseError")]
           ELSE \E path \in pgr_dijkstra(roads.rows, r.start_node, r.end_node) :
                \E order \in JoinOrders(path) :
                   LET feats  == [k \in 1..Len(order) |-> RouteFeature(roads.rows[order[k]])]
                       result == json_build_object(json_agg(feats))
                   IN  q' = [q EXCEPT ![c] =
                               Respond(r, "returned",
                                       IF ~result.sql_null THEN result ELSE EmptyCollection)]
    /\ UNCHANGED <<gdf, spc>>
    /\ UNCHANGED buildVars
    /\ UNCHANGED tableVars

(***************************************************************************)
(* get_nearest                                                             *)
(***************************************************************************)
\* lines 262-288: the nearest feature of the category, or the empty answer
GetNearestFind(c) ==
    /\ Free(c)
    /\ \E o \in QueryPts, cat \in Categories :
          LET r == [Idle EXCEPT !.op = "get_nearest", !.origin = o, !.category = cat]
              matching == {f \in point_features : ILike(f.category, cat)}
          IN  IF matching = {}
              THEN q' = [q EXCEPT ![c] = Respond(r, "empty", EmptyCollection)]
              ELSE \E f \in Nearest(matching, o) :
                      q' = [q EXCEPT ![c] =
                              [r EXCEPT !.pc = "nearest_snap_start",
                                        !.target = [found |-> TRUE, name |-> f.name,
                                                    category |-> f.category, geom |-> f.geom]]]
    /\ UNCHANGED <<gdf, spc>>
    /\ UNCHANGED buildVars
    /\ UNCHANGED tableVars

\* lines 291-295: start_node_row
GetNearestSnapStart(c) ==
    /\ q[c].pc = "nearest_snap_start"
    /\ IF ~vertices.exists THEN q' = [q EXCEPT ![c] = Raise(q[c], "UndefinedTable")]
       ELSE \E n \in SnapRows(q[c].origin) :
               q' = [q EXCEPT ![c] = [q[c] EXCEPT !.pc = "nearest_snap_end", !.start_node = n]]
    /\ UNCHANGED <<gdf, spc>>
    /\ UNCHANGED buildVars
    /\ UNCHANGED tableVars

\* lines 297-304: end_node_row; the search is the next statement when both
\* rows were found, ST_Distance is when one was not
GetNearestSnapEnd(c) ==
    /\ q[c].pc = "nearest_snap_end"
    /\ IF ~vertices.exists THEN q' = [q EXCEPT ![c] = Raise(q[c], "UndefinedTable")]
       ELSE \E n \in SnapRows(q[c].target.geom) :
               q' = [q EXCEPT ![c] =
                       [q[c] EXCEPT
                          !.pc = IF q[c].start_node = None \/ n = None
                                 THEN "nearest_distance" ELSE "nearest_route",
                          !.end_node = n]]
    /\ UNCHANGED <<gdf, spc>>
    /\ UNCHANGED buildVars
    /\ UNCHANGED tableVars

\* lines 322-326
DestinationPoint(t) ==
    [type |-> "Feature",
     geometry |-> [type |-> "Point", coordinates |-> t.geom],
     properties |-> [name |-> t.name, category |-> t.category, is_target |-> TRUE]]

\* lines 328-339; route_res is (ST_AsGeoJSON(ST_Union(geom)), SUM(cost)) and
\* the geometry is json.loads of its first column
NetworkFeature(route_res) ==
    [type |-> "Feature",
     geometry |-> route_res[1].value,
     properties |-> [type |-> "route",
                     distance_msg |-> <<"Road Distance: ", PyRound(route_res[2], 1000), "m">>]]

\* lines 340-361
StraightFeature(origin, t) ==
    [type |-> "Feature",
     geometry |-> [type |-> "LineString", coordinates |-> <<origin, t.geom>>],
     properties |-> [type |-> "route",
                     style |-> "dashed",
                     distance_msg |-> <<"Straight Distance: ",
                                        PyRound(ST_Distance(origin, t.geom), 1000),
                                        "m (No road path)">>]]

\* the test without its second half: any fetched row counts as a route
HasRouteAnyRow(route_res) == route_res # <<>>

\* line 328: route_res and route_res[0]
HasRoute(route_res) == route_res # <<>> /\ ~route_res[1].null

\* the aggregates of lines 309-314 over the joined rows of a path: both are
\* NULL over no row.  ST_Union of one simple line is that line, of several
\* lines a MultiLineString.
RouteAggregates(rows, path) ==
    <<IF path = <<>>
      THEN [null |-> TRUE, value |-> [type |-> "", coordinates |-> {}]]
      ELSE [null |-> FALSE,
            value |-> [type |-> IF Len(path) = 1 THEN rows[path[1]].geom.gtype
                                ELSE "MultiLineString",
                       coordinates |-> {rows[path[k]].geom : k \in 1..Len(path)}]],
      IF path = <<>> THEN None
      ELSE SumSeq([k \in 1..Len(path) |-> rows[path[k]].cost])>>

\* lines 319-339 and 363-365: the destination and the route over roads
NetworkResponse(r, route_res) ==
    Respond(r, "network",
            [sql_null |-> FALSE, type |-> "FeatureCollection",
             features |-> json_array(<<DestinationPoint(r.target),
                                       NetworkFeature(route_res)>>)])

\* lines 319-326 and 340-365: the destination and the straight line
StraightResponse(r) ==
    Respond(r, "straight",
            [sql_null |-> FALSE, type |-> "FeatureCollection",
             features |-> json_array(<<DestinationPoint(r.target),
                                       StraightFeature(r.origin, r.target)>>)])

\* lines 305-339: the search, and the response when it gave a route;
\* ST_Distance is the next statement when it gave none
GetNearestRoute(c) ==
    /\ q[c].pc = "nearest_route"
    /\ LET r == [q[c] EXCEPT
                    !.handed = IF roads.exists /\ roads.has_id
                               THEN InnerRows(roads) ELSE {},
                    !.rel = GraphRel(roads.rows, q[c].start_node, q[c].end_node)]
       IN  IF InnerQueryFails(roads) THEN q' = [q EXCEPT ![c] = Raise(r, "DatabaseError")]
           ELSE \E path \in pgr_dijkstra(roads.rows, r.start_node, r.end_node) :
                   LET route_res == RouteAggregates(roads.rows, path)
                   IN  q' = [q EXCEPT ![c] =
                               IF HasRoute(route_res) THEN NetworkResponse(r, route_res)
                               ELSE [r EXCEPT !.pc = "nearest_distance"]]
    /\ UNCHANGED <<gdf, spc>>
    /\ UNCHANGED buildVars
    /\ UNCHANGED tableVars

\* lines 340-365: the statement ST_Distance, which reads no table, and the
\* response with the straight line
GetNearestDistance(c) ==
    /\ q[c].pc = "nearest_distance"
    /\ q' = [q EXCEPT ![c] = StraightResponse(q[c])]
    /\ UNCHANGED <<gdf, spc>>
    /\ UNCHANGED buildVars
    /\ UNCHANGED tableVars

(***************************************************************************)
(* Specifications.                                                         *)
(***************************************************************************)
BuilderStart ==
    /\ spc = "loop"
    /\ idx = 0
    /\ nodes = EmptyDict
    /\ node_counter = 1
    /\ sources = <<>>
    /\ targets = <<>>
    /\ costs = <<>>

\* the service: the road file is ingested while one connection serves
\* requests; the tables are absent, or present and empty, before the ingestion
Init ==
    /\ gdf \in SeqsUpTo(RoadChoices, MaxRoads)
    /\ BuilderStart
    /\ \E t \in {NoTable, EmptyTable} : roads = t /\ vertices = t
    /\ point_features = Facilities
    /\ q = <<Idle>>

Ingest == ProcessRow \/ FinishBuild \/ UploadRoads \/ UploadNodes \/ UpdateCosts

Serve ==
    \/ \E c \in DOMAIN q : GetRouteSnapStart(c)
    \/ \E c \in DOMAIN q : GetRouteSnapEnd(c)
    \/ \E c \in DOMAIN q : GetRouteSearch(c)
    \/ \E c \in DOMAIN q : GetNearestFind(c)
    \/ \E c \in DOMAIN q : GetNearestSnapStart(c)
    \/ \E c \in DOMAIN q : GetNearestSnapEnd(c)
    \/ \E c \in DOMAIN q : GetNearestRoute(c)
    \/ \E c \in DOMAIN q : GetNearestDistance(c)

Next == Ingest \/ Serve

Spec == Init /\ [][Next]_vars

\* the service over a finished ingestion: requests are served once the road
\* section of setup_database has ended
IngestOver == spc \in {"done", "raised", "no_nodes"}

ServeAfter ==
    \/ \E c \in DOMAIN q : IngestOver /\ GetRouteSnapStart(c)
    \/ \E c \in DOMAIN q : IngestOver /\ GetRouteSnapEnd(c)
    \/ \E c \in DOMAIN q : IngestOver /\ GetRouteSearch(c)
    \/ \E c \in DOMAIN q : IngestOver /\ GetNearestFind(c)
    \/ \E c \in DOMAIN q : IngestOver /\ GetNearestSnapStart(c)
    \/ \E c \in DOMAIN q : IngestOver /\ GetNearestSnapEnd(c)
    \/ \E c \in DOMAIN q : IngestOver /\ GetNearestRoute(c)
    \/ \E c \in DOMAIN q : IngestOver /\ GetNearestDistance(c)

NextServe == Ingest \/ ServeAfter

SpecServe == Init /\ [][NextServe]_vars

\* two connections over the three roads A-B, B-C, D-E
InitPair ==
    /\ gdf = <<LineAB, LineBC, LineDE>>
    /\ BuilderStart
    /\ roads = NoTable
    /\ vertices = NoTable
    /\ point_features = Facilities
    /\ q = <<Idle, Idle>>

SpecPair == InitPair /\ [][NextServe]_vars

\* the builder alone, over every kind of row
InitBuild ==
    /\ gdf \in SeqsUpTo(LineChoices, MaxLines)
    /\ BuilderStart
    /\ roads = NoTable
    /\ vertices = NoTable
    /\ point_features = {}
    /\ q = <<>>

NextBuild == ProcessRow \/ FinishBuild

SpecBuild == InitBuild /\ [][NextBuild]_vars

\* the road files of the specification in which setup_database is run again
RerunFiles == SeqsUpTo({LineAB, LineDE}, MaxRerunLines)

\* the point files that are present, in the order of POINT_FILES, each with
\* the rows it gives: BANK.shp, then HOTEL.shp
PointFiles == <<{f \in Facilities : f.category = Bank},
                {f \in Facilities : f.category = Hotel}>>

\* setup_database is started again once an earlier run has ended, over the
\* tables the earlier run left.  Section A comes first; the locals of the
\* road section are those of a fresh call, and gdf is the road file that
\* line 172 will read.
Rerun ==
    /\ IngestOver
    /\ gdf' \in RerunFiles
    /\ spc' = "points_1"
    /\ idx' = 0
    /\ nodes' = EmptyDict
    /\ node_counter' = 1
    /\ sources' = <<>>
    /\ targets' = <<>>
    /\ costs' = <<>>
    /\ UNCHANGED q
    /\ UNCHANGED tableVars

\* section A, lines 98-126, one point file: to_postgis('point_features') with
\* 'replace' for the first file and 'append' for a later one, each committed
\* on its own.  Sections B and C write tables no request of the model reads.
UploadPoints ==
    /\ spc \in {"points_1", "points_2"}
    /\ LET i == IF spc = "points_1" THEN 1 ELSE 2
           first_point == i = 1
       IN  /\ point_features' = IF first_point THEN PointFiles[i]
                                ELSE point_features \cup PointFiles[i]
           /\ spc' = IF i < Len(PointFiles) THEN "points_2" ELSE "loop"
    /\ UNCHANGED <<gdf, q, roads, vertices>>
    /\ UNCHANGED buildVars

InitRerun ==
    /\ gdf \in RerunFiles
    /\ BuilderStart
    /\ roads = NoTable
    /\ vertices = NoTable
    /\ point_features = Facilities
    /\ q = <<Idle>>

NextRerun == Ingest \/ Rerun \/ UploadPoints \/ Serve

\* one connection serves requests while the ingestion is run, and run again
SpecRerun == InitRerun /\ [][NextRerun]_vars

(***************************************************************************)
(* Properties of the builder.                                              *)
(***************************************************************************)
\* a row that has a start and an end point
HasEnds(g) == g.gtype \in {"LineString", "MultiLineString"} /\ ~is_empty(g)

\* a row the loop leaves by "continue" without an entry
Skipped(g) == g.gtype \notin {"None", "LineString", "MultiLineString"} /\ ~is_empty(g)

\* the position in sources, targets and costs of the entry of row i
EntryOf(i) == Cardinality({j \in 1..i : ~Skipped(gdf[j])})

StartPt(g) == IF g.gtype = "LineString" THEN g.coords[1] ELSE g.geoms[1][1]
EndPt(g) ==
    IF g.gtype = "LineString" THEN g.coords[Len(g.coords)]
    ELSE g.geoms[Len(g.geoms)][Len(g.geoms[Len(g.geoms)])]

\* the endpoints of the rows processed so far: <<row, "s">> and <<row, "t">>
EndRefs == {e \in (1..idx) \X {"s", "t"} : HasEnds(gdf[e[1]])}
RawOf(e) == IF e[2] = "s" THEN StartPt(gdf[e[1]]) ELSE EndPt(gdf[e[1]])
IdOf(e) == IF e[2] = "s" THEN sources[EntryOf(e[1])] ELSE targets[EntryOf(e[1])]

\* C7: two endpoints of the rows processed get the same node id exactly when
\* their coordinates rounded to 6 digits are equal, and the node set holds as
\* many distinct ids as there are distinct rounded endpoint coordinates.
C7_DedupByRoundedCoordinate ==
    /\ \A e1 \in EndRefs, e2 \in EndRefs :
          (RoundCoord(RawOf(e1)) = RoundCoord(RawOf(e2))) <=> (IdOf(e1) = IdOf(e2))
    /\ Cardinality({nodes[c] : c \in DOMAIN nodes})
          = Cardinality({RoundCoord(RawOf(e)) : e \in EndRefs})
    /\ DOMAIN nodes = {RoundCoord(RawOf(e)) : e \in EndRefs}

\* a finished build in which two endpoints that differ before rounding share
\* a node and two others do not
C7_Witness ==
    /\ spc = "built"
    /\ \E e1 \in EndRefs, e2 \in EndRefs : RawOf(e1) # RawOf(e2) /\ IdOf(e1) = IdOf(e2)
    /\ \E e1 \in EndRefs, e2 \in EndRefs : IdOf(e1) # IdOf(e2)

\* the place of an endpoint in the order the loop meets them: row by row, the
\* start point of a row before its end point
Ord(e) == 2 * e[1] + (IF e[2] = "s" THEN 0 ELSE 1)

\* the place at which a rounded coordinate was first met
FirstSeen(coord) ==
    LET at == {Ord(e) : e \in {x \in EndRefs : RoundCoord(RawOf(x)) = coord}}
    IN  CHOOSE n \in at : \A m \in at : n <= m

\* the ids are 1..k for the k distinct rounded endpoint coordinates met, one
\* coordinate each, the counter is k + 1, and a coordinate met earlier has the
\* smaller id
IdsSequentialFirstSeen ==
    LET seen == {RoundCoord(RawOf(e)) : e \in EndRefs}
        k    == Cardinality(seen)
    IN  /\ DOMAIN nodes = seen
        /\ {nodes[c] : c \in DOMAIN nodes} = 1..k
        /\ node_counter = k + 1
        /\ \A a \in seen, b \in seen :
              (FirstSeen(a) < FirstSeen(b)) <=> (nodes[a] < nodes[b])

\* a step keeps every coordinate of the dict, with its id
IdsKept ==
    \A c \in DOMAIN nodes : c \in DOMAIN nodes' /\ nodes'[c] = nodes[c]

\* C13: after every prefix of the rows the node ids given are exactly 1..k,
\* k the number of distinct rounded endpoint coordinates met so far, in the
\* order the coordinates were first met (a row's start before its end), and
\* no step of the build changes or removes the id of a coordinate.
C13_SequentialIdsNeverChange == []IdsSequentialFirstSeen /\ [][IdsKept]_vars

\* a finished build of three or more nodes in which a later row met a
\* coordinate of an earlier row again
C13_Witness ==
    /\ spc = "built"
    /\ Cardinality(DOMAIN nodes) >= 3
    /\ \E e1 \in EndRefs, e2 \in EndRefs : e1[1] < e2[1] /\ IdOf(e1) = IdOf(e2)
    /\ \E e1 \in EndRefs, e2 \in EndRefs :
          e1[1] < e2[1] /\ IdOf(e1) > IdOf(e2)

\* C9: the builder never fails, and it holds one entry (source, target, cost)
\* for every row it has processed, whatever the row's geometry.
C9_OneEntryPerLine ==
    /\ spc # "raised"
    /\ Len(sources) = idx
    /\ Len(targets) = idx
    /\ Len(costs) = idx

(***************************************************************************)
(* Properties of the routing service.                                      *)
(***************************************************************************)
Done(c, op) == q[c].op = op /\ q[c].pc = "done"

\* the features of the response of connection c
Items(c) == q[c].body.features.items

\* the response is {"type": "FeatureCollection", "features": []}
IsEmptyResult(c) ==
    /\ q[c].status = 200
    /\ q[c].body.type = "FeatureCollection"
    /\ ~q[c].body.features.null
    /\ Items(c) = <<>>

\* the response holds the destination and a route over roads
IsNetworkResult(c) ==
    /\ q[c].status = 200
    /\ ~q[c].body.features.null
    /\ Len(Items(c)) = 2
    /\ Items(c)[2].geometry.type \in {"LineString", "MultiLineString"}
    /\ Items(c)[2].properties.distance_msg[1] = "Road Distance: "

\* the response holds the destination and the dashed straight line
IsStraightResult(c) ==
    /\ q[c].status = 200
    /\ ~q[c].body.features.null
    /\ Len(Items(c)) = 2
    /\ Items(c)[2].geometry.type = "LineString"
    /\ Items(c)[2].properties.distance_msg[1] = "Straight Distance: "
    /\ Items(c)[2].properties.distance_msg[3] = "m (No road path)"

\* n whole metres is d millimetres rounded to the nearest metre
IsRounded(n, d) == 1000 * n - d <= 500 /\ d - 1000 * n <= 500

\* C1: a get_nearest request whose facility was found and whose two snapped
\* vertices no road path connects is answered, not failed, with the straight
\* line [origin, facility], the geodesic distance rounded to the whole metre,
\* and the message that no road path was found.
C1_StraightLineWhenDisconnected ==
    \A c \in DOMAIN q :
        (Done(c, "get_nearest") /\ q[c].target.found /\ q[c].rel = "disconnected")
        => /\ IsStraightResult(c)
           /\ Items(c)[2].geometry.coordinates = <<q[c].origin, q[c].target.geom>>
           /\ IsRounded(Items(c)[2].properties.distance_msg[2],
                        ST_Distance(q[c].origin, q[c].target.geom))

\* C2: a get_nearest request whose two snapped vertices are the same vertex or
\* are joined by a road path is answered with the network result, never with
\* the straight line.
C2_NetworkWhenConnected ==
    \A c \in DOMAIN q :
        (Done(c, "get_nearest") /\ q[c].target.found /\ q[c].rel \in {"same", "connected"})
        => /\ IsNetworkResult(c)
           /\ ~IsStraightResult(c)

\* C3: a get_nearest request that the collaborators answered ends in exactly
\* one of: the empty result, the network result, the straight-line result; in
\* the empty result exactly when no facility matches the category.
C3_ExactlyOneOutcome ==
    \A c \in DOMAIN q :
        (Done(c, "get_nearest") /\ q[c].outcome # "error")
        => /\ Cardinality({k \in {"empty", "network", "straight"} :
                             \/ k = "empty" /\ IsEmptyResult(c)
                             \/ k = "network" /\ IsNetworkResult(c)
                             \/ k = "straight" /\ IsStraightResult(c)}) = 1
           /\ IsEmptyResult(c)
                 <=> ({f \in point_features : ILike(f.category, q[c].category)} = {})
           /\ ~IsEmptyResult(c)
                 => Cardinality({k \in 1..Len(Items(c)) :
                                    "distance_msg" \in DOMAIN Items(c)[k].properties}) = 1

\* a facility was found, the vertex table is empty, and the straight line is
\* the answer
C3_Witness ==
    /\ Done(1, "get_nearest")
    /\ q[1].target.found
    /\ vertices.exists /\ vertices.rows = <<>>
    /\ q[1].start_node = None
    /\ IsStraightResult(1)

\* the value of the explicit tag of a response: the "type" property of its
\* route feature, "" when it has none
Tag(c) ==
    IF /\ ~q[c].body.features.null
       /\ Len(Items(c)) = 2
       /\ "properties" \in DOMAIN Items(c)[2]
    THEN Items(c)[2].properties.type
    ELSE ""

\* C4: the responses of get_nearest carry an explicit tag whose value alone
\* tells network route, straight-line fallback and empty apart: two responses
\* of different modes never carry the same tag value.  (The features of
\* get_route carry no such property.)
C4_TagTellsMode ==
    \A c1 \in DOMAIN q, c2 \in DOMAIN q :
        (/\ Done(c1, "get_nearest") /\ q[c1].status = 200
         /\ Done(c2, "get_nearest") /\ q[c2].status = 200
         /\ q[c1].outcome # q[c2].outcome)
        => Tag(c1) # Tag(c2)

\* C5: a get_route request whose two snapped vertices lie in different
\* components is answered with a feature collection whose feature list is
\* empty, and does not fail.
C5_EmptyWhenDisconnected ==
    \A c \in DOMAIN q :
        (Done(c, "get_route") /\ q[c].rel = "disconnected") => IsEmptyResult(c)

\* C6: a get_route request over an empty vertex table is answered with the
\* empty result.
C6_EmptyOnEmptyGraph ==
    \A c \in DOMAIN q :
        (Done(c, "get_route") /\ vertices.exists /\ vertices.rows = <<>>)
        => IsEmptyResult(c)

\* a row of line geometry that is missing or empty
NullGeometry(g) == g.gtype = "None" \/ is_empty(g)

\* C8: after the ingestion a row whose geometry is null or empty has cost 0 and
\* neither source nor target, and no search is handed such a row.
C8_NullEdgeExcluded ==
    /\ spc = "done"
          => \A i \in 1..Len(roads.rows) :
                NullGeometry(roads.rows[i].geom)
                => /\ roads.rows[i].cost = 0
                   /\ roads.rows[i].source = None
                   /\ roads.rows[i].target = None
    /\ \A c \in DOMAIN q : \A e \in q[c].handed : e.source # None /\ e.target # None

\* the ids are the edges of a walk from s to t, in the order of the walk
RECURSIVE InTraversalOrder(_, _, _)
InTraversalOrder(ids, s, t) ==
    IF ids = <<>> THEN s = t
    ELSE LET r == roads.rows[Head(ids)]
         IN  /\ s \in {r.source, r.target}
             /\ InTraversalOrder(Tail(ids), Other(r, s), t)

\* C10: a get_route request whose two snapped vertices a road path joins is
\* answered with the edges of the path in traversal order and with a total
\* cost, the sum of the costs of those edges.
C10_PathInOrderWithCost ==
    \A c \in DOMAIN q :
        (Done(c, "get_route") /\ q[c].rel = "connected")
        => /\ q[c].status = 200
           /\ ~q[c].body.features.null
           /\ InTraversalOrder([k \in 1..Len(Items(c)) |-> Items(c)[k].properties.id],
                               q[c].start_node, q[c].end_node)
           /\ "total_cost" \in DOMAIN q[c].body
           /\ q[c].body.total_cost
                 = SumSeq([k \in 1..Len(Items(c)) |->
                              roads.rows[Items(c)[k].properties.id].cost])

(***************************************************************************)
(* Properties of the persisted tables.                                     *)
(***************************************************************************)
\* the vertex table holds a node of this id at this coordinate
NodeAt(id, coord) ==
    \E i \in 1..Len(vertices.rows) :
        vertices.rows[i].id = id /\ vertices.rows[i].geom = coord

\* C11: whenever both tables exist, every row of roads that has a source and
\* a target references ids of the vertex table, and the vertices referenced
\* are those of the row's own build: they lie at the rounded first and last
\* coordinate of the row's geometry.
C11_EdgesReferenceNodesOfSameBuild ==
    (roads.exists /\ vertices.exists)
    => \A i \in 1..Len(roads.rows) :
          LET r == roads.rows[i]
          IN  (r.source # None /\ r.target # None)
              => /\ NodeAt(r.source, RoundCoord(StartPt(r.geom)))
                 /\ NodeAt(r.target, RoundCoord(EndPt(r.geom)))

(***************************************************************************)
(* Properties of concurrent requests.                                      *)
(***************************************************************************)
\* the vertex ids a snap of pt yields over the vertex table as it is
SnapAlone(pt) ==
    IF vertices.rows = <<>> THEN {None}
    ELSE {v.id : v \in {w \in RowSet(vertices) :
                            \A o \in RowSet(vertices) : DistSq(w.geom, pt) <= DistSq(o.geom, pt)}}

\* the final records of a get_route request from o to d that runs alone over
\* the tables as they are
AloneRoute(o, d) ==
    LET r0 == [Idle EXCEPT !.op = "get_route", !.origin = o, !.dest = d]
    IN  IF ~vertices.exists THEN {Raise(r0, "UndefinedTable")}
        ELSE UNION {
               IF s = None THEN {Raise(r0, "TypeError")}
               ELSE UNION {
                      IF e = None
                      THEN {Raise([r0 EXCEPT !.start_node = s], "TypeError")}
                      ELSE LET r == [r0 EXCEPT
                                       !.start_node = s, !.end_node = e,
                                       !.handed = IF /\ roads.exists /\ roads.has_id
                                                     /\ roads.has_roadname
                                                  THEN InnerRows(roads) ELSE {},
                                       !.rel = GraphRel(roads.rows, s, e)]
                           IN  IF ~roads.exists THEN {Raise(r, "UndefinedTable")}
                               ELSE IF ~roads.has_id \/ ~roads.has_roadname
                               THEN {Raise(r, "UndefinedColumn")}
                               ELSE IF InnerQueryFails(roads) THEN {Raise(r, "DatabaseError")}
                               ELSE {Respond(r, "returned",
                                        json_build_object(json_agg(
                                           [k \in 1..Len(order) |->
                                               RouteFeature(roads.rows[order[k]])]))) :
                                     order \in UNION {JoinOrders(path) :
                                                 path \in pgr_dijkstra(roads.rows, s, e)}} :
                      e \in SnapAlone(d)} :
               s \in SnapAlone(o)}

\* the final records of a get_nearest request from o for cat that runs alone
AloneNearest(o, cat) ==
    LET r0 == [Idle EXCEPT !.op = "get_nearest", !.origin = o, !.category = cat]
        matching == {f \in point_features : ILike(f.category, cat)}
        near == {f \in matching : \A g \in matching : DistSq(f.geom, o) <= DistSq(g.geom, o)}
    IN  IF matching = {} THEN {Respond(r0, "empty", EmptyCollection)}
        ELSE UNION {
               LET r1 == [r0 EXCEPT !.target = [found |-> TRUE, name |-> f.name,
                                                category |-> f.category, geom |-> f.geom]]
               IN  IF ~vertices.exists THEN {Raise(r1, "UndefinedTable")}
                   ELSE UNION {
                          LET r2 == [r1 EXCEPT !.start_node = se[1], !.end_node = se[2]]
                              r3 == [r2 EXCEPT
                                       !.handed = IF roads.exists /\ roads.has_id
                                                  THEN InnerRows(roads) ELSE {},
                                       !.rel = GraphRel(roads.rows, se[1], se[2])]
                          IN  IF se[1] = None \/ se[2] = None
                              THEN {StraightResponse(r2)}
                              ELSE IF InnerQueryFails(roads) THEN {Raise(r3, "DatabaseError")}
                              ELSE {IF path = <<>> THEN StraightResponse(r3)
                                    ELSE NetworkResponse(r3, RouteAggregates(roads.rows, path)) :
                                    path \in pgr_dijkstra(roads.rows, se[1], se[2])} :
                          se \in SnapAlone(o) \X SnapAlone(f.geom)} :
               f \in near}

\* every finished request ended as it may end when it runs alone
IsolatedResults ==
    \A c \in DOMAIN q :
        q[c].pc = "done"
        => /\ q[c].op = "get_route" => q[c] \in AloneRoute(q[c].origin, q[c].dest)
           /\ q[c].op = "get_nearest" => q[c] \in AloneNearest(q[c].origin, q[c].category)

\* a step of a request leaves the three tables as they are and changes the
\* record of one connection only
RequestFrame ==
    (q' # q)
    => /\ UNCHANGED <<roads, vertices, point_features>>
       /\ \A c1 \in DOMAIN q, c2 \in DOMAIN q :
             (q'[c1] # q[c1] /\ q'[c2] # q[c2]) => c1 = c2

\* C12: over a completed graph, whatever the interleaving of the steps of two
\* connections, no step of a request changes the node table or the edge
\* table or the record of the other connection, and every finished request
\* holds a result it may return when it runs alone on that graph.
C12_QueriesDoNotInterfere == [][RequestFrame]_vars /\ []IsolatedResults

\* connection 1 was answered with a road path while the request of
\* connection 2, whose search found no path, is still being served
C12_Witness ==
    /\ Done(1, "get_nearest")
    /\ q[1].outcome = "network"
    /\ q[2].op = "get_nearest"
    /\ q[2].pc = "nearest_distance"
    /\ q[2].rel = "disconnected"
    /\ q[2].start_node # q[1].start_node
====
